---- MODULE Spec2Model ----
(***************************************************************************)
(* Ingestion-and-incremental-aggregation pipeline of the quant analytics   *)
(* dashboard: the websocket ingestor with its locked tick buffer and flush *)
(* loop (ingestion/binance_ws.py), the DuckDB tick/bar store               *)
(* (storage/datastore.py) and the watermark-based resampler                *)
(* (resampling/sampler.py).                                                *)
(*                                                                         *)
(* Timestamps are microseconds since the epoch (the resolution of a Python *)
(* datetime and of a DuckDB TIMESTAMP).  Tables are bags of rows: neither  *)
(* table declares a key, so equal rows can be stored more than once.       *)
(***************************************************************************)
EXTENDS Bags, FiniteSets, Integers, Sequences, TLC

VARIABLES
    ticks,      \* table ticks(ts, symbol, price, size)
    ohlc,       \* table ohlc(ts, symbol, timeframe, open, high, low, close, volume)
    rpc,        \* per resample caller: "idle" | "exec" (between the MAX(ts) read and the INSERT) | "raised" (its last call ended with the query's exception)
    rkey,       \* per resample caller: [symbol, timeframe] of the running invocation
    last_ts,    \* per resample caller: the local last_ts of the running invocation
    rseen,      \* history: bucket starts the key had when the invocation read its mark
    raced,      \* history: some invocation appended a bucket a concurrent one appended after its read
    rdone,      \* history: the invocation that completed last: its key, the mark it read, the rows it appended, the ticks table it ran on
    budget,     \* resample invocations the behaviour may still start
    running,    \* BinanceWebSocketIngestor._running
    threads,    \* BinanceWebSocketIngestor._threads: [target, sym] of every thread started
    buffer,     \* BinanceWebSocketIngestor._buffer
    lock,       \* BinanceWebSocketIngestor._lock: 0 when free, else the index of the holding thread
    tpc,        \* per started thread: where it is
    tloc,       \* per started thread: its local (the tick of _on_message, the df of _flush_buffer)
    spc,        \* per caller of start: "idle" | "set" (inside start, past the _running test)
    appended,   \* history: the ticks appended to the buffer
    handed,     \* history: the ticks handed to insert_ticks
    lost,       \* history: the ticks of batches whose insert_ticks raised
    ncalls,     \* history: calls of insert_ticks
    expected,   \* history: the normalized ticks of the valid trade messages received
    nmsg,       \* history: messages received
    phase,      \* history: "none", then "drop" once a message was dropped, "ok_after" once a later one gave a tick
    noop,       \* history: a start call returned at its _running test
    nempty,     \* history: flushes that found the buffer empty (counted up to EmptyFlushCap)
    nlaunch     \* history: start calls of the behaviour that passed the _running test

rvars == <<ohlc, rpc, rkey, last_ts, rseen, raced, rdone, budget>>
ivars == <<running, threads, buffer, lock, tpc, tloc, spc, appended, handed, lost,
           ncalls, expected, nmsg, phase, noop, nempty, nlaunch>>
vars == <<ticks, ohlc, rpc, rkey, last_ts, rseen, raced, rdone, budget,
          running, threads, buffer, lock, tpc, tloc, spc, appended, handed, lost,
          ncalls, expected, nmsg, phase, noop, nempty, nlaunch>>

\* ------------------------------------------------------------------ bounds

MaxTicks == 2        \* rows the ticks table may hold (SpecResample)
MaxResamples == 2    \* resample invocations per behaviour (SpecResample)
MaxInitTicks == 3    \* rows of the ticks table an aggregation is applied to (SpecAggregate)
MaxMsgs == 2         \* messages the feed delivers per behaviour (SpecIngest)
MaxLaunches == 1     \* start calls that may pass the _running test (SpecIngest)
EmptyFlushCap == 2   \* empty flushes the history counts (SpecIngest)

\* ------------------------------------------------------------- value sets

\* Python None / SQL NULL for a timestamp: no timestamp is negative.
None == -1

\* The instruments app.py resamples.
Symbols == {"btcusdt", "ethusdt"}

\* Exchange timestamps (milliseconds) the feed may carry.
MsgTimes == {0, 500, 1000, 60000}

\* datetime.fromtimestamp(data["T"] / 1000, tz=timezone.utc), in microseconds.
FromTimestamp(T) == T * 1000

\* (price, size) pairs a trade may carry.
Quotes == {<<10, 1>>, <<12, 2>>, <<9, 1>>}

Trades(times, quotes) ==
    {[ts |-> FromTimestamp(T), symbol |-> s, price |-> q[1], size |-> q[2]] :
        T \in times, s \in Symbols, q \in quotes}

TickUniverse == Trades(MsgTimes, Quotes)

\* The trades that reach the store while resample invocations run.
FeedTicks == Trades({0, 500, 60000}, {<<10, 1>>})

\* The callers of start.
Starters == {"app", "rerun"}

\* BinanceWebSocketIngestor.__init__.
IngestorInit ==
    /\ running = FALSE
    /\ threads = <<>>
    /\ buffer = <<>>
    /\ lock = 0
    /\ tpc = <<>>
    /\ tloc = <<>>
    /\ spc = [a \in Starters |-> "idle"]
    /\ appended = EmptyBag
    /\ handed = EmptyBag
    /\ lost = EmptyBag
    /\ ncalls = 0
    /\ expected = EmptyBag
    /\ nmsg = 0
    /\ phase = "none"
    /\ noop = FALSE
    /\ nempty = 0
    /\ nlaunch = 0

\* ------------------------------------------------------------- resampler

\* TIMEFRAME_MAP, each interval in microseconds.
TIMEFRAME_MAP == [tf \in {"1s", "1m", "5m"} |->
    CASE tf = "1s" -> 1000000
      [] tf = "1m" -> 60 * 1000000
      [] tf = "5m" -> 5 * 60 * 1000000]

\* The threads that call Resampler.resample (Streamlit runs each session's script in its own thread).
Callers == {"session1", "session2"}
Keys == [symbol : Symbols, timeframe : DOMAIN TIMEFRAME_MAP]
\* The locals of a caller that is not inside resample.
NoKey == [symbol |-> "", timeframe |-> ""]
NoRun == [key |-> NoKey, last |-> None, rows |-> {}, table |-> EmptyBag]

\* A bucket named by the end of its interval.
time_bucket_end(interval, ts) == ts - (ts % interval) + interval

\* time_bucket(INTERVAL, ts): the start of the interval-wide bucket holding ts.
time_bucket(interval, ts) == ts - (ts % interval)

SetMax(S) == CHOOSE x \in S : \A y \in S : y <= x
SetMin(S) == CHOOSE x \in S : \A y \in S : x <= y

\* Rows of a table (a bag) that satisfy a WHERE clause, as a set of distinct rows.
RowsOf(table) == BagToSet(table)

\* sum(size) over a group: every stored copy of a row counts.
RECURSIVE SumSize(_, _)
SumSize(table, rows) ==
    IF rows = {} THEN 0
    ELSE LET r == CHOOSE x \in rows : TRUE
         IN  r.size * CopiesIn(r, table) + SumSize(table, rows \ {r})

\* A mark read per symbol, whatever the timeframe.
latest_bar_time_of_symbol(bars, symbol, timeframe) ==
    LET mine == {r \in RowsOf(bars) : r.symbol = symbol}
    IN  IF mine = {} THEN None ELSE SetMax({r.ts : r \in mine})

\* SELECT MAX(ts) FROM ohlc WHERE symbol = ? AND timeframe = ?  (NULL when no row).
latest_bar_time(bars, symbol, timeframe) ==
    LET ts == {r.ts : r \in {x \in RowsOf(bars) :
                               x.symbol = symbol /\ x.timeframe = timeframe}}
    IN  IF ts = {} THEN None ELSE SetMax(ts)

\* The WHERE clause of the aggregation query.
WhereClause(t, symbol, last) ==
    t.symbol = symbol /\ (last # None => t.ts > last)

Selected(table, symbol, last) ==
    {t \in RowsOf(table) : WhereClause(t, symbol, last)}

\* The rows one group (bucket) can produce.  arg_min(price, ts) and arg_max(price, ts)
\* take the price of a row with the least/greatest ts; which one, among rows with
\* equal ts, the engine does not define.
GroupBarsSwapped(table, group, b, symbol, timeframe) ==
    LET first == SetMin({t.ts : t \in group})
        last  == SetMax({t.ts : t \in group})
    IN  {[ts |-> b, symbol |-> symbol, timeframe |-> timeframe,
          open |-> o, high |-> SetMax({t.price : t \in group}),
          low |-> SetMin({t.price : t \in group}), close |-> c,
          volume |-> SumSize(table, group)] :
            o \in {t.price : t \in {x \in group : x.ts = last}},
            c \in {t.price : t \in {x \in group : x.ts = first}}}
GroupBars(table, group, b, symbol, timeframe) ==
    LET first == SetMin({t.ts : t \in group})
        last  == SetMax({t.ts : t \in group})
    IN  {[ts |-> b, symbol |-> symbol, timeframe |-> timeframe,
          open |-> o, high |-> SetMax({t.price : t \in group}),
          low |-> SetMin({t.price : t \in group}), close |-> c,
          volume |-> SumSize(table, group)] :
            o \in {t.price : t \in {x \in group : x.ts = first}},
            c \in {t.price : t \in {x \in group : x.ts = last}}}

\* The result sets the SELECT ... GROUP BY 1, 2 can return: one row per bucket.
AggregateQuery(table, symbol, timeframe, last) ==
    LET sel     == Selected(table, symbol, last)
        ival    == TIMEFRAME_MAP[timeframe]
        buckets == {time_bucket(ival, t.ts) : t \in sel}
        grp(b)  == {t \in sel : time_bucket(ival, t.ts) = b}
        bars(b) == GroupBars(table, grp(b), b, symbol, timeframe)
        all     == UNION {bars(b) : b \in buckets}
    IN  {{f[b] : b \in buckets} :
            f \in {g \in [buckets -> all] : \A b \in buckets : g[b] \in bars(b)}}

\* INSERT INTO t SELECT ...: the rows are added to those the table holds.
InsertReplace(table, rows) == SetToBag(rows)
InsertInto(table, rows) == table (+) SetToBag(rows)

BucketsOf(bars, key) ==
    {r.ts : r \in {x \in RowsOf(bars) :
                     x.symbol = key.symbol /\ x.timeframe = key.timeframe}}

\* resample, first statement: last_ts = self._latest_bar_time(symbol, timeframe).
ResampleRead(c, key) ==
    /\ rpc[c] # "exec"
    /\ budget > 0
    /\ budget' = budget - 1
    /\ rpc' = [rpc EXCEPT ![c] = "exec"]
    /\ rkey' = [rkey EXCEPT ![c] = key]
    /\ last_ts' = [last_ts EXCEPT ![c] = latest_bar_time(ohlc, key.symbol, key.timeframe)]
    /\ rseen' = [rseen EXCEPT ![c] = BucketsOf(ohlc, key)]
    /\ UNCHANGED <<ticks, ohlc, raced, rdone>>
    /\ UNCHANGED ivars

\* resample, second statement: self.con.execute(query, params).
ResampleExec(c) ==
    /\ rpc[c] = "exec"
    /\ \E rows \in AggregateQuery(ticks, rkey[c].symbol, rkey[c].timeframe, last_ts[c]) :
          /\ ohlc' = InsertInto(ohlc, rows)
          /\ raced' = (raced \/ \E r \in rows :
                                  r.ts \in BucketsOf(ohlc, rkey[c]) \ rseen[c])
          /\ rdone' = [key |-> rkey[c], last |-> last_ts[c], rows |-> rows,
                        table |-> ticks]
    /\ rpc' = [rpc EXCEPT ![c] = "idle"]
    /\ rkey' = [rkey EXCEPT ![c] = NoKey]
    /\ last_ts' = [last_ts EXCEPT ![c] = None]
    /\ rseen' = [rseen EXCEPT ![c] = {}]
    /\ UNCHANGED <<ticks, budget>>
    /\ UNCHANGED ivars

\* resample, second statement, when self.con.execute(query, params) raises:
\* nothing is inserted and, resample having no handler, the exception reaches
\* the caller.
ResampleRaises(c) ==
    /\ rpc[c] = "exec"
    /\ rpc' = [rpc EXCEPT ![c] = "raised"]
    /\ rkey' = [rkey EXCEPT ![c] = NoKey]
    /\ last_ts' = [last_ts EXCEPT ![c] = None]
    /\ rseen' = [rseen EXCEPT ![c] = {}]
    /\ UNCHANGED <<ticks, ohlc, raced, rdone, budget>>
    /\ UNCHANGED ivars

\* An insert_ticks that replaces the table's rows by the batch.
insert_ticks_replacing(df) ==
    /\ ticks' = df

\* insert_ticks(df): a flushed batch is added to the ticks table.
insert_ticks(df) ==
    /\ ticks' = ticks (+) df

\* A flush of the ingestor reaching the store, with any non-empty batch.
FlushArrives ==
    /\ \E t \in FeedTicks :
          /\ BagCardinality(ticks) < MaxTicks
          /\ insert_ticks(SetToBag({t}))
    /\ UNCHANGED rvars
    /\ UNCHANGED ivars

InitResample ==
    /\ ticks = EmptyBag
    /\ ohlc = EmptyBag
    /\ rpc = [c \in Callers |-> "idle"]
    /\ rkey = [c \in Callers |-> NoKey]
    /\ last_ts = [c \in Callers |-> None]
    /\ rseen = [c \in Callers |-> {}]
    /\ raced = FALSE
    /\ rdone = NoRun
    /\ budget = MaxResamples
    /\ IngestorInit

NextResample ==
    \/ FlushArrives
    \/ \E c \in Callers, key \in Keys : ResampleRead(c, key)
    \/ \E c \in Callers : ResampleExec(c)

SpecResample == InitResample /\ [][NextResample]_vars

\* run_resampling: one caller invoking resample for one key after the other,
\* while flushes arrive.
NextSerial ==
    \/ FlushArrives
    \/ \E key \in Keys : ResampleRead("session1", key)
    \/ ResampleExec("session1")

SpecSerial == InitResample /\ [][NextSerial]_vars

\* One resample invocation applied to a ticks table of up to MaxInitTicks rows.
RECURSIVE SeqToBag(_)
SeqToBag(s) == IF s = <<>> THEN EmptyBag ELSE SetToBag({Head(s)}) (+) SeqToBag(Tail(s))

InitAggregate ==
    /\ ticks \in {SeqToBag(s) : s \in UNION {[1 .. n -> TickUniverse] : n \in 0 .. MaxInitTicks}}
    /\ ohlc = EmptyBag
    /\ rpc = [c \in Callers |-> "idle"]
    /\ rkey = [c \in Callers |-> NoKey]
    /\ last_ts = [c \in Callers |-> None]
    /\ rseen = [c \in Callers |-> {}]
    /\ raced = FALSE
    /\ rdone = NoRun
    /\ budget = 1
    /\ IngestorInit

NextAggregate ==
    \/ \E c \in Callers, key \in Keys : ResampleRead(c, key)
    \/ \E c \in Callers : ResampleExec(c)

SpecAggregate == InitAggregate /\ [][NextAggregate]_vars

\* -------------------------------------------------------------- ingestor

\* The instruments the ingestor is constructed with (symbols).
IngestSymbols == <<"btcusdt", "ethusdt">>

\* A JSON value of a message field: <<type, text>>; Missing when the key is absent.
Missing == <<"absent", "">>
Str(x) == <<"str", x>>
Num(x) == <<"num", x>>

\* Numbers the feed writes, as text, and their values.
NumberOf == [x \in {"500", "10", "1", "2"} |->
    CASE x = "500" -> 500 [] x = "10" -> 10 [] x = "1" -> 1 [] x = "2" -> 2]

\* str.lower() on the instrument names the feed writes.
Lower == [x \in {"BTCUSDT", "ETHUSDT", "btcusdt", "ethusdt"} |->
    CASE x = "BTCUSDT" -> "btcusdt" [] x = "ETHUSDT" -> "ethusdt"
      [] x = "btcusdt" -> "btcusdt" [] x = "ethusdt" -> "ethusdt"]

\* The well-formed trade messages of the feed.
TradeMessages ==
    [json : {"object"}, e : {Str("trade")}, T : {Num("500")},
     s : {Str("BTCUSDT"), Str("ethusdt")}, p : {Str("10")}, q : {Num("2")}]

BaseTrade ==
    [json |-> "object", e |-> Str("trade"), T |-> Num("500"), s |-> Str("BTCUSDT"),
     p |-> Str("10"), q |-> Num("2")]

\* Everything a session may receive: the trades, a trade with one field
\* replaced by a value of another event type, another JSON type or no value,
\* a JSON array, and text that is no JSON.
Messages ==
    TradeMessages
    \cup {[BaseTrade EXCEPT !.e = v] : v \in {Str("aggTrade"), Missing}}
    \cup {[BaseTrade EXCEPT !.T = v] : v \in {Str("500"), Missing}}
    \cup {[BaseTrade EXCEPT !.s = v] : v \in {Num("1"), Missing}}
    \cup {[BaseTrade EXCEPT !.p = v] : v \in {Str("abc"), Missing}}
    \cup {[BaseTrade EXCEPT !.q = v] : v \in {Str(""), Missing}}
    \cup {[json |-> j, e |-> Missing, T |-> Missing, s |-> Missing, p |-> Missing,
           q |-> Missing] : j \in {"array", "invalid"}}

NoTick == [ts |-> None, symbol |-> "", price |-> 0, size |-> 0]
Raise(exc) == [out |-> "raise", exc |-> exc, tick |-> NoTick]

\* float(x) of a JSON value: "" when it succeeds, else the exception.
FloatError(v) ==
    IF v = Missing THEN "KeyError"
    ELSE IF v[1] = "str" /\ v[2] \notin DOMAIN NumberOf THEN "ValueError"
    ELSE ""

\* The body of the try block of _on_message, statement by statement.
on_message_body(msg) ==
    IF msg.json = "invalid" THEN Raise("JSONDecodeError")
    ELSE IF msg.json # "object" THEN Raise("AttributeError")
    ELSE IF msg.e # Str("trade") THEN [out |-> "return", exc |-> "", tick |-> NoTick]
    ELSE IF msg.T = Missing THEN Raise("KeyError")
    ELSE IF msg.T[1] # "num" THEN Raise("TypeError")
    ELSE IF msg.s = Missing THEN Raise("KeyError")
    ELSE IF msg.s[1] # "str" THEN Raise("AttributeError")
    ELSE IF FloatError(msg.p) # "" THEN Raise(FloatError(msg.p))
    ELSE IF FloatError(msg.q) # "" THEN Raise(FloatError(msg.q))
    ELSE [out |-> "tick", exc |-> "",
          tick |-> [ts |-> FromTimestamp(NumberOf[msg.T[2]]),
                    symbol |-> Lower[msg.s[2]],
                    price |-> NumberOf[msg.p[2]],
                    size |-> NumberOf[msg.q[2]]]]

\* except Exception: pass -- TRUE when the handler swallows the exception.
ExceptClauseValueError(exc) == exc \in {"ValueError", "JSONDecodeError"}
ExceptClause(exc) == TRUE

\* _on_message up to the lock: what the message leads to.
on_message(msg) ==
    LET r == on_message_body(msg)
    IN  IF r.out = "raise" /\ ExceptClause(r.exc)
        THEN [out |-> "pass", exc |-> r.exc, tick |-> NoTick]
        ELSE r

\* The claim's reading of a valid trade message and of its normalized tick.
IsValidTrade(msg) ==
    /\ msg.json = "object"
    /\ msg.e = Str("trade")
    /\ msg.T[1] = "num"
    /\ msg.s[1] = "str"
    /\ msg.p[1] \in {"str", "num"} /\ msg.p[2] \in DOMAIN NumberOf
    /\ msg.q[1] \in {"str", "num"} /\ msg.q[2] \in DOMAIN NumberOf

NormalizedTick(msg) ==
    [ts |-> NumberOf[msg.T[2]] * 1000, symbol |-> Lower[msg.s[2]],
     price |-> NumberOf[msg.p[2]], size |-> NumberOf[msg.q[2]]]

Threads == 1 .. Len(threads)
IsSocket(i) == threads[i].target = "_start_socket"
IsFlush(i) == threads[i].target = "_flush_loop"

\* One inbound message on the session of thread i: _on_message up to the lock.
OnMessage(i, msg) ==
    /\ IsSocket(i)
    /\ tpc[i] = "run"
    /\ nmsg < MaxMsgs
    /\ nmsg' = nmsg + 1
    /\ LET r == on_message(msg)
       IN  /\ tpc' = [tpc EXCEPT ![i] = CASE r.out = "tick" -> "lock"
                                          [] r.out = "raise" -> "crashed"
                                          [] OTHER -> "run"]
           /\ tloc' = [tloc EXCEPT ![i] = r.tick]
           /\ phase' = CASE r.out # "tick" /\ phase = "none" -> "drop"
                          [] r.out = "tick" /\ phase = "drop" -> "ok_after"
                          [] OTHER -> phase
    /\ expected' = (IF IsValidTrade(msg)
                    THEN expected (+) SetToBag({NormalizedTick(msg)}) ELSE expected)
    /\ UNCHANGED <<running, threads, buffer, lock, spc, appended, handed, lost,
                   ncalls, noop, nempty, nlaunch, ticks>>
    /\ UNCHANGED rvars

\* with self._lock: entered by a session.
SocketAcquire(i) ==
    /\ IsSocket(i)
    /\ tpc[i] = "lock"
    /\ lock = 0
    /\ lock' = i
    /\ tpc' = [tpc EXCEPT ![i] = "append"]
    /\ UNCHANGED <<running, threads, buffer, tloc, spc, appended, handed, lost,
                   ncalls, expected, nmsg, phase, noop, nempty, nlaunch, ticks>>
    /\ UNCHANGED rvars

\* self._buffer.append(tick), and the lock is released.
SocketAppend(i) ==
    /\ IsSocket(i)
    /\ tpc[i] = "append"
    /\ buffer' = Append(buffer, tloc[i])
    /\ appended' = appended (+) SetToBag({tloc[i]})
    /\ lock' = 0
    /\ tpc' = [tpc EXCEPT ![i] = "run"]
    /\ tloc' = [tloc EXCEPT ![i] = NoTick]
    /\ UNCHANGED <<running, threads, spc, handed, lost, ncalls, expected, nmsg, phase,
                   noop, nempty, nlaunch, ticks>>
    /\ UNCHANGED rvars

\* A flush loop written as while True.
FlushTestForever(i) ==
    /\ IsFlush(i)
    /\ tpc[i] = "loop"
    /\ tpc' = [tpc EXCEPT ![i] = "sleep"]
    /\ UNCHANGED <<running, threads, buffer, lock, tloc, spc, appended, handed, lost,
                   ncalls, expected, nmsg, phase, noop, nempty, nlaunch, ticks>>
    /\ UNCHANGED rvars

\* _flush_loop: while self._running.
FlushTest(i) ==
    /\ IsFlush(i)
    /\ tpc[i] = "loop"
    /\ tpc' = [tpc EXCEPT ![i] = IF running THEN "sleep" ELSE "done"]
    /\ UNCHANGED <<running, threads, buffer, lock, tloc, spc, appended, handed, lost,
                   ncalls, expected, nmsg, phase, noop, nempty, nlaunch, ticks>>
    /\ UNCHANGED rvars

\* time.sleep(flush_interval) is over and _flush_buffer enters with self._lock.
FlushAcquire(i) ==
    /\ IsFlush(i)
    /\ tpc[i] = "sleep"
    /\ lock = 0
    /\ lock' = i
    /\ tpc' = [tpc EXCEPT ![i] = "locked"]
    /\ UNCHANGED <<running, threads, buffer, tloc, spc, appended, handed, lost,
                   ncalls, expected, nmsg, phase, noop, nempty, nlaunch, ticks>>
    /\ UNCHANGED rvars

\* self._buffer = [] after df = pd.DataFrame(self._buffer).
SwappedBufferKept(buf) == buf
SwappedBuffer(buf) == <<>>

Capped(n) == IF n < EmptyFlushCap THEN n + 1 ELSE n

\* A flush written without the empty test: swap and insert under the lock.
FlushSwapAlwaysInserts(i) ==
    /\ IsFlush(i)
    /\ tpc[i] = "locked"
    /\ buffer' = <<>>
    /\ ticks' = ticks (+) SeqToBag(buffer)
    /\ handed' = handed (+) SeqToBag(buffer)
    /\ ncalls' = ncalls + 1
    /\ lock' = 0
    /\ tpc' = [tpc EXCEPT ![i] = "loop"]
    /\ UNCHANGED <<running, threads, tloc, spc, appended, lost, expected, nmsg, phase,
                   noop, nempty, nlaunch>>
    /\ UNCHANGED rvars

\* A flush whose insert_ticks call sits inside with self._lock.
FlushSwapKeepsLock(i) ==
    /\ IsFlush(i)
    /\ tpc[i] = "locked"
    /\ IF buffer = <<>>
       THEN /\ tpc' = [tpc EXCEPT ![i] = "loop"]
            /\ nempty' = Capped(nempty)
            /\ lock' = 0
            /\ UNCHANGED <<buffer, tloc>>
       ELSE /\ tloc' = [tloc EXCEPT ![i] = buffer]
            /\ buffer' = SwappedBuffer(buffer)
            /\ tpc' = [tpc EXCEPT ![i] = "insert"]
            /\ UNCHANGED <<nempty, lock>>
    /\ UNCHANGED <<running, threads, spc, appended, handed, lost, ncalls, expected,
                   nmsg, phase, noop, nlaunch, ticks>>
    /\ UNCHANGED rvars

\* The body of with self._lock in _flush_buffer: return when the buffer is
\* empty, else take the buffer as df and leave an empty one; the lock is released.
FlushSwap(i) ==
    /\ IsFlush(i)
    /\ tpc[i] = "locked"
    /\ IF buffer = <<>>
       THEN /\ tpc' = [tpc EXCEPT ![i] = "loop"]
            /\ nempty' = Capped(nempty)
            /\ UNCHANGED <<buffer, tloc>>
       ELSE /\ tloc' = [tloc EXCEPT ![i] = buffer]
            /\ buffer' = SwappedBuffer(buffer)
            /\ tpc' = [tpc EXCEPT ![i] = "insert"]
            /\ UNCHANGED nempty
    /\ lock' = 0
    /\ UNCHANGED <<running, threads, spc, appended, handed, lost, ncalls, expected,
                   nmsg, phase, noop, nlaunch, ticks>>
    /\ UNCHANGED rvars

\* A flush that drops its batch instead of inserting it.
FlushInsertDrops(i) ==
    /\ IsFlush(i)
    /\ tpc[i] = "insert"
    /\ tloc' = [tloc EXCEPT ![i] = <<>>]
    /\ tpc' = [tpc EXCEPT ![i] = "loop"]
    /\ UNCHANGED <<running, threads, buffer, lock, spc, appended, handed, lost, ncalls,
                   expected, nmsg, phase, noop, nempty, nlaunch, ticks>>
    /\ UNCHANGED rvars

\* if not df.empty: self.datastore.insert_ticks(df), and the insert succeeds.
FlushInsert(i) ==
    /\ IsFlush(i)
    /\ tpc[i] = "insert"
    /\ IF tloc[i] # <<>>
       THEN /\ insert_ticks(SeqToBag(tloc[i]))
            /\ handed' = handed (+) SeqToBag(tloc[i])
            /\ ncalls' = ncalls + 1
       ELSE UNCHANGED <<ticks, handed, ncalls>>
    /\ tloc' = [tloc EXCEPT ![i] = <<>>]
    /\ tpc' = [tpc EXCEPT ![i] = "loop"]
    /\ UNCHANGED <<running, threads, buffer, lock, spc, appended, lost, expected,
                   nmsg, phase, noop, nempty, nlaunch>>
    /\ UNCHANGED rvars

\* A flush whose failed insert is caught inside _flush_buffer, which then returns.
FlushInsertSwallows(i) ==
    /\ IsFlush(i)
    /\ tpc[i] = "insert"
    /\ tloc[i] # <<>>
    /\ handed' = handed (+) SeqToBag(tloc[i])
    /\ lost' = lost (+) SeqToBag(tloc[i])
    /\ ncalls' = ncalls + 1
    /\ tloc' = [tloc EXCEPT ![i] = <<>>]
    /\ tpc' = [tpc EXCEPT ![i] = "loop"]
    /\ UNCHANGED <<running, threads, buffer, lock, spc, appended, expected, nmsg, phase,
                   noop, nempty, nlaunch, ticks>>
    /\ UNCHANGED rvars

\* A flush that puts the batch of a failed insert back in front of the buffer.
FlushInsertRequeues(i) ==
    /\ IsFlush(i)
    /\ tpc[i] = "insert"
    /\ tloc[i] # <<>>
    /\ handed' = handed (+) SeqToBag(tloc[i])
    /\ lost' = lost (+) SeqToBag(tloc[i])
    /\ ncalls' = ncalls + 1
    /\ buffer' = tloc[i] \o buffer
    /\ tloc' = [tloc EXCEPT ![i] = <<>>]
    /\ tpc' = [tpc EXCEPT ![i] = "loop"]
    /\ UNCHANGED <<running, threads, lock, spc, appended, expected, nmsg, phase,
                   noop, nempty, nlaunch, ticks>>
    /\ UNCHANGED rvars

\* insert_ticks(df) raises: the exception leaves _flush_buffer and _flush_loop.
FlushInsertRaises(i) ==
    /\ IsFlush(i)
    /\ tpc[i] = "insert"
    /\ tloc[i] # <<>>
    /\ handed' = handed (+) SeqToBag(tloc[i])
    /\ lost' = lost (+) SeqToBag(tloc[i])
    /\ ncalls' = ncalls + 1
    /\ tloc' = [tloc EXCEPT ![i] = <<>>]
    /\ tpc' = [tpc EXCEPT ![i] = "raised"]
    /\ UNCHANGED <<running, threads, buffer, lock, spc, appended, expected, nmsg, phase,
                   noop, nempty, nlaunch, ticks>>
    /\ UNCHANGED rvars

\* if self._running: return -- TRUE when start returns at once.
AlreadyRunningIgnored(flag) == FALSE
AlreadyRunning(flag) == flag

\* start, its first statement.
StartCheck(a) ==
    /\ spc[a] = "idle"
    /\ (~running => nlaunch < MaxLaunches)
    /\ IF AlreadyRunning(running)
       THEN /\ noop' = TRUE
            /\ UNCHANGED <<spc, nlaunch>>
       ELSE /\ nlaunch' = nlaunch + 1
            /\ spc' = [spc EXCEPT ![a] = "set"]
            /\ UNCHANGED noop
    /\ UNCHANGED <<running, threads, buffer, lock, tpc, tloc, appended, handed, lost,
                   ncalls, expected, nmsg, phase, nempty, ticks>>
    /\ UNCHANGED rvars

\* The threads one start creates: a session per symbol, then the flush thread.
NewThreads ==
    [k \in 1 .. Len(IngestSymbols) |-> [target |-> "_start_socket", sym |-> IngestSymbols[k]]]
    \o <<[target |-> "_flush_loop", sym |-> ""]>>

\* start, the rest: self._running = True and the threads are started.
StartLaunch(a) ==
    /\ spc[a] = "set"
    /\ running' = TRUE
    /\ threads' = threads \o NewThreads
    /\ tpc' = tpc \o [k \in 1 .. Len(NewThreads) |->
                        IF NewThreads[k].target = "_start_socket" THEN "run" ELSE "loop"]
    /\ tloc' = tloc \o [k \in 1 .. Len(NewThreads) |->
                        IF NewThreads[k].target = "_start_socket" THEN NoTick ELSE <<>>]
    /\ spc' = [spc EXCEPT ![a] = "idle"]
    /\ UNCHANGED <<buffer, lock, appended, handed, lost, ncalls, expected, nmsg, phase,
                   noop, nempty, nlaunch, ticks>>
    /\ UNCHANGED rvars

\* stop: self._running = False.
Stop ==
    /\ running' = FALSE
    /\ UNCHANGED <<threads, buffer, lock, tpc, tloc, spc, appended, handed, lost,
                   ncalls, expected, nmsg, phase, noop, nempty, nlaunch, ticks>>
    /\ UNCHANGED rvars

InitIngest ==
    /\ ticks = EmptyBag
    /\ ohlc = EmptyBag
    /\ rpc = [c \in Callers |-> "idle"]
    /\ rkey = [c \in Callers |-> NoKey]
    /\ last_ts = [c \in Callers |-> None]
    /\ rseen = [c \in Callers |-> {}]
    /\ raced = FALSE
    /\ rdone = NoRun
    /\ budget = 0
    /\ IngestorInit

NextIngest ==
    \/ \E a \in Starters : StartCheck(a)
    \/ \E a \in Starters : StartLaunch(a)
    \/ Stop
    \/ \E i \in Threads, msg \in Messages : OnMessage(i, msg)
    \/ \E i \in Threads : SocketAcquire(i)
    \/ \E i \in Threads : SocketAppend(i)
    \/ \E i \in Threads : FlushTest(i)
    \/ \E i \in Threads : FlushAcquire(i)
    \/ \E i \in Threads : FlushSwap(i)
    \/ \E i \in Threads : FlushInsert(i)
    \/ \E i \in Threads : FlushInsertRaises(i)

SpecIngest == InitIngest /\ [][NextIngest]_vars

\* The ingestor after one start call, no tick received yet.
InitStarted ==
    /\ ticks = EmptyBag
    /\ ohlc = EmptyBag
    /\ rpc = [c \in Callers |-> "idle"]
    /\ rkey = [c \in Callers |-> NoKey]
    /\ last_ts = [c \in Callers |-> None]
    /\ rseen = [c \in Callers |-> {}]
    /\ raced = FALSE
    /\ rdone = NoRun
    /\ budget = 0
    /\ running = TRUE
    /\ threads = NewThreads
    /\ buffer = <<>>
    /\ lock = 0
    /\ tpc = [k \in 1 .. Len(NewThreads) |->
                IF NewThreads[k].target = "_start_socket" THEN "run" ELSE "loop"]
    /\ tloc = [k \in 1 .. Len(NewThreads) |->
                IF NewThreads[k].target = "_start_socket" THEN NoTick ELSE <<>>]
    /\ spc = [a \in Starters |-> "idle"]
    /\ appended = EmptyBag
    /\ handed = EmptyBag
    /\ lost = EmptyBag
    /\ ncalls = 0
    /\ expected = EmptyBag
    /\ nmsg = 0
    /\ phase = "none"
    /\ noop = FALSE
    /\ nempty = 0
    /\ nlaunch = 0

\* The threads of one start and stop; start is not called again.
NextStarted ==
    \/ Stop
    \/ \E i \in Threads, msg \in Messages : OnMessage(i, msg)
    \/ \E i \in Threads : SocketAcquire(i)
    \/ \E i \in Threads : SocketAppend(i)
    \/ \E i \in Threads : FlushTest(i)
    \/ \E i \in Threads : FlushAcquire(i)
    \/ \E i \in Threads : FlushSwap(i)
    \/ \E i \in Threads : FlushInsert(i)
    \/ \E i \in Threads : FlushInsertRaises(i)

\* The indices of the threads of one start.
ThreadIds == 1 .. Len(NewThreads)

\* A step of the flush thread i: the loop test, the end of the sleep with the
\* lock acquired, the swap, the insert that succeeds.
FlushStep(i) ==
    /\ IsFlush(i)
    /\ (FlushTest(i) \/ FlushAcquire(i) \/ FlushSwap(i) \/ FlushInsert(i))

\* The threads of one start, scheduled: a flush thread that can take a step
\* takes one, and a session inside with self._lock leaves it.
SpecStartedLive ==
    /\ InitStarted
    /\ [][NextStarted]_vars
    /\ \A i \in ThreadIds : WF_vars(FlushStep(i)) /\ WF_vars(SocketAppend(i))

\* start and stop called in any order on a started ingestor that receives no
\* message, with the flush loops they leave or create.
NextLifecycle ==
    \/ \E a \in Starters : StartCheck(a)
    \/ \E a \in Starters : StartLaunch(a)
    \/ Stop
    \/ \E i \in Threads : FlushTest(i)
    \/ \E i \in Threads : FlushAcquire(i)
    \/ \E i \in Threads : FlushSwap(i)

SpecLifecycle == InitStarted /\ [][NextLifecycle]_vars

\* A started ingestor whose buffer holds up to MaxTicks ticks, its flush loop,
\* and one resample invocation, over a store whose statements may raise.
InitFaults ==
    /\ ticks = EmptyBag
    /\ ohlc = EmptyBag
    /\ rpc = [c \in Callers |-> "idle"]
    /\ rkey = [c \in Callers |-> NoKey]
    /\ last_ts = [c \in Callers |-> None]
    /\ rseen = [c \in Callers |-> {}]
    /\ raced = FALSE
    /\ rdone = NoRun
    /\ budget = 1
    /\ running = TRUE
    /\ threads = NewThreads
    /\ buffer \in UNION {[1 .. n -> FeedTicks] : n \in 0 .. MaxTicks}
    /\ lock = 0
    /\ tpc = [k \in 1 .. Len(NewThreads) |->
                IF NewThreads[k].target = "_start_socket" THEN "run" ELSE "loop"]
    /\ tloc = [k \in 1 .. Len(NewThreads) |->
                IF NewThreads[k].target = "_start_socket" THEN NoTick ELSE <<>>]
    /\ spc = [a \in Starters |-> "idle"]
    /\ appended = SeqToBag(buffer)
    /\ handed = EmptyBag
    /\ lost = EmptyBag
    /\ ncalls = 0
    /\ expected = SeqToBag(buffer)
    /\ nmsg = Len(buffer)
    /\ phase = "none"
    /\ noop = FALSE
    /\ nempty = 0
    /\ nlaunch = 0

NextFaults ==
    \/ \E i \in Threads : FlushTest(i)
    \/ \E i \in Threads : FlushAcquire(i)
    \/ \E i \in Threads : FlushSwap(i)
    \/ \E i \in Threads : FlushInsert(i)
    \/ \E i \in Threads : FlushInsertRaises(i)
    \/ \E c \in Callers, key \in Keys : ResampleRead(c, key)
    \/ \E c \in Callers : ResampleExec(c)
    \/ \E c \in Callers : ResampleRaises(c)

SpecFaults == InitFaults /\ [][NextFaults]_vars

\* ------------------------------------------------- properties of the resampler

\* The step in which caller c's aggregation INSERT runs.
ExecStep(c) == rpc[c] = "exec" /\ rpc'[c] = "idle"

\* The rows a step adds to the ohlc table.
Appended == RowsOf(ohlc' (-) ohlc)

\* Rows of the ohlc table, copies counted, of one key and bucket.
RECURSIVE CountRows(_, _)
CountRows(table, rows) ==
    IF rows = {} THEN 0
    ELSE LET r == CHOOSE x \in rows : TRUE
         IN  CopiesIn(r, table) + CountRows(table, rows \ {r})

BarsAt(key, b) ==
    CountRows(ohlc, {r \in RowsOf(ohlc) :
        r.symbol = key.symbol /\ r.timeframe = key.timeframe /\ r.ts = b})

\* Persisted ticks of a symbol that lie in bucket b of a timeframe and pass `keep`.
TicksIn(symbol, timeframe, b, last) ==
    {t \in RowsOf(ticks) :
        /\ t.symbol = symbol
        /\ t.ts > last
        /\ time_bucket(TIMEFRAME_MAP[timeframe], t.ts) = b}

\* C1: the ohlc table holds at most one row per (symbol, timeframe, bucket_start).
C1_BucketUniqueness ==
    \A key \in Keys : \A b \in BucketsOf(ohlc, key) : BarsAt(key, b) <= 1

\* C3: two concurrent resample invocations for one key never both append a bar
\* for the same bucket_start (no invocation appends a bucket that another
\* invocation appended between its mark read and its insert).
C3_SingleFlight == raced = FALSE

\* C4: every bar a resample invocation appends has a bucket_start strictly
\* greater than the high-water mark the invocation read.
C4_StrictlyIncreasing ==
    [][\A c \in Callers :
          (ExecStep(c) /\ last_ts[c] # None) =>
              \A r \in Appended : r.ts > last_ts[c]]_vars

\* C5: the high-water mark of every key never decreases, and once it is not
\* none it is never none again, whatever is flushed or resampled.
C5_MonotonicMark ==
    [][\A key \in Keys :
          LET h  == latest_bar_time(ohlc, key.symbol, key.timeframe)
              h2 == latest_bar_time(ohlc', key.symbol, key.timeframe)
          IN  /\ h2 >= h
              /\ (h # None => h2 # None)]_vars

\* C5 witness: an invocation that read a mark completed and appended a bar above
\* it, while a tick at or before that mark was in the ticks table.
C5_Witness ==
    /\ rdone.last # None
    /\ \E r \in rdone.rows : r.ts > rdone.last
    /\ \E t \in RowsOf(ticks) : t.symbol = rdone.key.symbol /\ t.ts <= rdone.last

\* C6: a resample invocation that read the mark h leaves every existing bar
\* row as it is; every bar it appends is built only from ticks with ts > h
\* (its volume, high and low are those of the ticks above h in its bucket);
\* and when the ticks persisted since the previous invocation for the key are
\* ticks of the symbol with timestamp equal to h, it appends no bar.
C6_IncrementalExclusion ==
    [][\A c \in Callers :
          (ExecStep(c) /\ last_ts[c] # None) =>
              LET sym   == rkey[c].symbol
                  tf    == rkey[c].timeframe
                  h     == last_ts[c]
                  fresh == RowsOf(ticks (-) rdone.table)
              IN  /\ \A r \in RowsOf(ohlc) : CopiesIn(r, ohlc') >= CopiesIn(r, ohlc)
                  /\ \A r \in Appended :
                        LET above == TicksIn(sym, tf, r.ts, h)
                        IN  /\ above # {}
                            /\ r.volume = SumSize(ticks, above)
                            /\ r.high = SetMax({t.price : t \in above})
                            /\ r.low = SetMin({t.price : t \in above})
                  /\ ( /\ rdone.key = rkey[c]
                       /\ fresh # {}
                       /\ \A t \in fresh : t.symbol = sym /\ t.ts = h )
                     => ohlc' = ohlc]_vars

\* C7: a resample invocation that read no mark appends, for every bucket that
\* holds a persisted tick of the symbol, exactly one bar: bucket_start the
\* floored timestamp, open the price of an earliest tick, close the price of a
\* latest tick, high/low the extreme prices, volume the sum of the sizes.
C7_AggregationCorrect ==
    [][\A c \in Callers :
          (ExecStep(c) /\ last_ts[c] = None) =>
              LET sym  == rkey[c].symbol
                  tf   == rkey[c].timeframe
                  mine == {t \in RowsOf(ticks) : t.symbol = sym}
                  bks  == {time_bucket(TIMEFRAME_MAP[tf], t.ts) : t \in mine}
              IN  /\ {r.ts : r \in Appended} = bks
                  /\ BagCardinality(ohlc' (-) ohlc) = Cardinality(bks)
                  /\ \A r \in Appended :
                        LET grp == TicksIn(sym, tf, r.ts, None)
                            t0  == SetMin({t.ts : t \in grp})
                            t2  == SetMax({t.ts : t \in grp})
                        IN  /\ r.symbol = sym /\ r.timeframe = tf
                            /\ r.ts % TIMEFRAME_MAP[tf] = 0
                            /\ \E t \in grp : t.ts = t0 /\ r.open = t.price
                            /\ \E t \in grp : t.ts = t2 /\ r.close = t.price
                            /\ (Cardinality({t \in grp : t.ts = t0}) = 1
                                  => r.open = (CHOOSE t \in grp : t.ts = t0).price)
                            /\ (Cardinality({t \in grp : t.ts = t2}) = 1
                                  => r.close = (CHOOSE t \in grp : t.ts = t2).price)
                            /\ r.high = SetMax({t.price : t \in grp})
                            /\ r.low = SetMin({t.price : t \in grp})
                            /\ r.volume = SumSize(ticks, grp)]_vars

\* C7 witness: the ticks (t0,10,1), (t1,12,2), (t2,9,1) of one 1-minute bucket
\* were resampled into the bar open=10, high=12, low=9, close=9, volume=4.
C7_Witness ==
    /\ ticks = SetToBag({[ts |-> 0, symbol |-> "btcusdt", price |-> 10, size |-> 1],
                         [ts |-> 500000, symbol |-> "btcusdt", price |-> 12, size |-> 2],
                         [ts |-> 1000000, symbol |-> "btcusdt", price |-> 9, size |-> 1]})
    /\ ohlc = SetToBag({[ts |-> 0, symbol |-> "btcusdt", timeframe |-> "1m",
                         open |-> 10, high |-> 12, low |-> 9, close |-> 9, volume |-> 4]})

\* -------------------------------------------------- properties of the ingestor

\* The ticks of the batches swapped out of the buffer and not yet handed to insert_ticks.
RECURSIVE BatchesOf(_)
BatchesOf(is) ==
    IF is = {} THEN EmptyBag
    ELSE LET i == CHOOSE x \in is : TRUE
         IN  SeqToBag(tloc[i]) (+) BatchesOf(is \ {i})
InFlight == BatchesOf({i \in Threads : IsFlush(i) /\ tpc[i] = "insert"})

\* The ticks built by _on_message and not yet appended to the buffer.
RECURSIVE TicksOf(_)
TicksOf(is) ==
    IF is = {} THEN EmptyBag
    ELSE LET i == CHOOSE x \in is : TRUE
         IN  SetToBag({tloc[i]}) (+) TicksOf(is \ {i})
Pending == TicksOf({i \in Threads : IsSocket(i) /\ tpc[i] \in {"lock", "append"}})

\* C2: the ticks handed to insert_ticks, those of a batch on its way to it and
\* those in the buffer are, copies counted, exactly the ticks appended; every
\* swap takes the whole buffer as its batch and leaves the buffer empty; and
\* while no insert has failed the ticks table holds exactly the ticks handed.
C2_BufferAtomicity ==
    /\ [](/\ appended = handed (+) InFlight (+) SeqToBag(buffer)
          /\ (InFlight = EmptyBag => appended = handed (+) SeqToBag(buffer))
          /\ (lost = EmptyBag => ticks = handed))
    /\ [][\A i \in Threads :
             (tpc[i] = "locked" /\ tpc'[i] = "insert") =>
                 /\ tloc'[i] = buffer
                 /\ buffer' = <<>>]_vars

\* C2 witness: two ticks were appended around a swap; the first went to storage
\* with its flush, the second waits in the buffer.
C2_Witness ==
    /\ BagCardinality(handed) >= 1
    /\ Len(buffer) >= 1
    /\ lost = EmptyBag
    /\ ticks = handed

\* C8: a flush that finds the buffer empty calls insert_ticks not at all and
\* leaves buffer and ticks table as they are; it returns to the loop.
C8_EmptyFlushNoWrite ==
    [][\A i \in Threads :
          (IsFlush(i) /\ tpc[i] = "locked" /\ buffer = <<>> /\ tpc'[i] # "locked") =>
              /\ ncalls' = ncalls
              /\ handed' = handed
              /\ ticks' = ticks
              /\ buffer' = buffer
              /\ tpc'[i] = "loop"]_vars

\* C8 witness: EmptyFlushCap flushes found the buffer empty and storage was never called.
C8_Witness ==
    /\ nempty = EmptyFlushCap
    /\ ncalls = 0
    /\ ticks = EmptyBag

\* C9: receiving a message never changes the buffer and never ends the session;
\* the ticks appended or about to be appended are, copies counted, exactly the
\* normalized ticks of the valid trade messages received.
C9_ParseIsolation ==
    /\ [](/\ expected = appended (+) Pending
          /\ \A i \in Threads : tpc[i] # "crashed")
    /\ [][nmsg' # nmsg =>
             /\ buffer' = buffer
             /\ \A i \in Threads :
                   tpc[i] = "run" => tpc'[i] \in {"run", "lock"}]_vars

\* C9 witness: a message was dropped and a later valid trade was appended.
C9_Witness ==
    /\ phase = "ok_after"
    /\ BagCardinality(appended) >= 1
    /\ expected = appended

\* C10: a caller passes the _running test of start only while the ingestor is
\* not running; a start that returns at the test changes nothing; a start that
\* passes it sets running and starts one session thread per instrument, in
\* order, and then one flush thread; nothing else starts a thread.
C10_StartIdempotent ==
    [][/\ \A a \in Starters :
            /\ (spc[a] = "idle" /\ spc'[a] = "set") => ~running
            /\ (spc[a] = "set" /\ spc'[a] = "idle") =>
                  /\ running'
                  /\ Len(threads') = Len(threads) + Len(IngestSymbols) + 1
                  /\ \A k \in 1 .. Len(IngestSymbols) :
                        threads'[Len(threads) + k] =
                            [target |-> "_start_socket", sym |-> IngestSymbols[k]]
                  /\ threads'[Len(threads')].target = "_flush_loop"
       /\ (noop' # noop) =>
             UNCHANGED <<running, threads, buffer, lock, tpc, tloc, spc, ticks>>
       /\ (threads' # threads) =>
             \E a \in Starters : spc[a] = "set" /\ spc'[a] = "idle"]_vars

\* C10 witness: one start launched the three threads and a start called while
\* running returned at the test.
C10_Witness ==
    /\ noop
    /\ running
    /\ Len(threads) = Len(IngestSymbols) + 1

\* The rows of a bar table that belong to one key, copies counted.
RowsOfKey(bars, key) ==
    [r \in {x \in RowsOf(bars) : x.symbol = key.symbol /\ x.timeframe = key.timeframe}
        |-> CopiesIn(r, bars)]

\* The bar tables a complete, undisturbed resample(key) can leave.
resample(bars, table, key) ==
    {InsertInto(bars, rows) :
        rows \in AggregateQuery(table, key.symbol, key.timeframe,
                                latest_bar_time(bars, key.symbol, key.timeframe))}

\* The bar tables resample(k2) can leave when run after an invocation that left
\* one of the tables `first`.
Then(first, table, k2) ==
    UNION {resample(mid, table, k2) : mid \in first}

\* The pairs of different keys.
KeyPairs == {p \in SUBSET Keys : Cardinality(p) = 2}

\* C12: a step changes the ohlc rows of a key only when it is the INSERT of an
\* invocation for that key, and that INSERT adds rows of its own key only; and
\* in every state with no invocation in flight, for every two different keys,
\* resample(k1) then resample(k2) leaves the same ohlc table as resample(k2)
\* then resample(k1).
C12_KeysIndependent ==
    /\ []((\A c \in Callers : rpc[c] # "exec") =>
            LET one == [k \in Keys |-> resample(ohlc, ticks, k)]
            IN  \A p \in KeyPairs :
                    LET k1 == CHOOSE k \in p : TRUE
                        k2 == CHOOSE k \in p : k # k1
                    IN  Then(one[k1], ticks, k2) = Then(one[k2], ticks, k1))
    /\ [][/\ \A key \in Keys :
               RowsOfKey(ohlc', key) # RowsOfKey(ohlc, key) =>
                   \E c \in Callers : ExecStep(c) /\ rkey[c] = key
          /\ \A c \in Callers :
               ExecStep(c) =>
                   \A r \in Appended :
                       r.symbol = rkey[c].symbol /\ r.timeframe = rkey[c].timeframe]_vars

\* C12 witness: invocations for two different keys have each appended a bar,
\* the second one after the first.
C12_Witness ==
    /\ rdone.rows # {}
    /\ \E r \in RowsOf(ohlc) :
          r.symbol # rdone.key.symbol \/ r.timeframe # rdone.key.timeframe

\* C13: no step lowers the number of copies of any row of the ticks table or
\* of the ohlc table (a stored row stays, with the values it has); a step that
\* changes the ticks table leaves the ohlc table as it is, and the ohlc table
\* changes only in the INSERT of a resample invocation, which leaves the ticks
\* table as it is.
C13_AppendOnly ==
    [][/\ \A t \in RowsOf(ticks) : CopiesIn(t, ticks') >= CopiesIn(t, ticks)
       /\ \A r \in RowsOf(ohlc) : CopiesIn(r, ohlc') >= CopiesIn(r, ohlc)
       /\ ticks' # ticks =>
             /\ ohlc' = ohlc
             /\ \A c \in Callers : rpc'[c] = rpc[c]
       /\ ohlc' # ohlc =>
             /\ ticks' = ticks
             /\ \E c \in Callers : ExecStep(c)]_vars

\* C13 witness: the ticks table was filled by several flushes and a second
\* resample invocation added a bar to a table that already held one.
C13_Witness ==
    /\ BagCardinality(ticks) = MaxTicks
    /\ BagCardinality(ohlc) >= 2
    /\ rdone.last # None
    /\ rdone.rows # {}

\* C14: the lock is either free or held by a session between its acquire and
\* its append or by a flush between its acquire and its swap; no thread that
\* is in, or past, its insert_ticks call holds it; and the step of an
\* insert_ticks call leaves the lock as it is.
C14_NoLockAcrossInsert ==
    /\ [](/\ lock # 0 =>
               /\ lock \in Threads
               /\ (IsSocket(lock) => tpc[lock] = "append")
               /\ (IsFlush(lock) => tpc[lock] = "locked")
          /\ \A i \in Threads : tpc[i] \in {"insert", "raised"} => lock # i)
    /\ [][ncalls' # ncalls => lock' = lock]_vars

\* C14 witness: while a flush is in its storage call with a batch, a session
\* holds the lock for its append.
C14_Witness ==
    /\ \E i \in Threads : IsFlush(i) /\ tpc[i] = "insert" /\ tloc[i] # <<>>
    /\ \E j \in Threads : IsSocket(j) /\ tpc[j] = "append" /\ lock = j

\* C15: a resample invocation that read the mark h appends no bar for a bucket
\* below h; when a tick of bucket h was persisted since the key's previous
\* invocation, it appends a bar for bucket h; and a bar it appends for bucket h
\* is computed from all persisted ticks of the bucket, the tick at the bucket
\* start included: volume their sum of sizes, high and low their extreme
\* prices, open the price of an earliest and close the price of a latest one.
C15_OpenBucketFromScratch ==
    [][\A c \in Callers :
          (ExecStep(c) /\ last_ts[c] # None) =>
              LET sym   == rkey[c].symbol
                  tf    == rkey[c].timeframe
                  h     == last_ts[c]
                  all   == TicksIn(sym, tf, h, None)
                  fresh == {t \in RowsOf(ticks (-) rdone.table) : t \in all}
              IN  /\ \A r \in Appended : r.ts >= h
                  /\ (rdone.key = rkey[c] /\ fresh # {}) =>
                        \E r \in Appended : r.ts = h
                  /\ \A r \in Appended :
                        r.ts = h =>
                            /\ r.volume = SumSize(ticks, all)
                            /\ r.high = SetMax({t.price : t \in all})
                            /\ r.low = SetMin({t.price : t \in all})
                            /\ \E t \in all :
                                  t.ts = SetMin({x.ts : x \in all}) /\ r.open = t.price
                            /\ \E t \in all :
                                  t.ts = SetMax({x.ts : x \in all}) /\ r.close = t.price]_vars

\* The ingestor was stopped, or an insert_ticks call raised.
Halted == ~running \/ \E i \in Threads : tpc[i] = "raised"

\* C16: once n ticks have been appended to the buffer, the ticks table comes
\* to hold n ticks unless the ingestor is stopped or an insert raises; the
\* ticks table holds exactly the ticks of the batches whose insert_ticks call
\* completed, and it changes only in the step that completes the insert of a
\* flush, by the batch that flush swapped out.
C16_EventuallyPersisted ==
    /\ \A n \in 1 .. MaxMsgs :
          (BagCardinality(appended) >= n) ~> (BagCardinality(ticks) >= n \/ Halted)
    /\ [](ticks (+) lost = handed)
    /\ [][ticks' # ticks =>
             \E i \in Threads :
                 /\ IsFlush(i)
                 /\ tpc[i] = "insert" /\ tpc'[i] = "loop"
                 /\ ticks' = ticks (+) SeqToBag(tloc[i])]_vars

\* C16 witness: the ingestor is running, no insert raised, and two flushes
\* have persisted every tick appended.
C16_Witness ==
    /\ running
    /\ lost = EmptyBag
    /\ ncalls >= 2
    /\ ticks = appended

\* C17: with no further start, once the running flag is cleared every flush
\* thread comes to an end; a flush thread enters a new sleep-and-flush round
\* only by passing the loop test with the flag set, and a loop test made with
\* the flag cleared ends the loop for good, so that a thread asleep or inside
\* a flush when stop is called completes that one flush and no other; the stop
\* step changes no thread's position, and sessions keep receiving and
\* appending whatever the flag is.
C17_FlushLoopStops ==
    /\ ~running ~> (\A i \in Threads : IsFlush(i) => tpc[i] \in {"done", "raised"})
    /\ [][/\ \A i \in Threads :
               IsFlush(i) =>
                   /\ (tpc'[i] = "sleep" /\ tpc[i] # "sleep") =>
                         (tpc[i] = "loop" /\ running)
                   /\ (tpc[i] = "loop" /\ ~running /\ tpc'[i] # "loop") =>
                         tpc'[i] = "done"
                   /\ tpc[i] = "done" => tpc'[i] = "done"
                   /\ (tpc'[i] = "locked" /\ tpc[i] # "locked") => tpc[i] = "sleep"
          /\ running' # running => (tpc' = tpc /\ threads' = threads /\ buffer' = buffer)
          /\ \A i \in Threads :
               (IsSocket(i) /\ tpc[i] # tpc'[i]) =>
                   \/ tpc[i] = "run" /\ tpc'[i] \in {"lock", "crashed"}
                   \/ tpc[i] = "lock" /\ tpc'[i] = "append"
                   \/ tpc[i] = "append" /\ tpc'[i] = "run"]_vars

\* C17 witness: the flag is cleared, the flush loop has ended after a last
\* flush that stored a batch, and a session holds the lock to append a tick
\* that no flush will take.
C17_Witness ==
    /\ ~running
    /\ \A i \in Threads : IsFlush(i) => tpc[i] = "done"
    /\ ncalls >= 1
    /\ \E j \in Threads : IsSocket(j) /\ tpc[j] = "append" /\ lock = j

\* The threads that have not ended.
LiveFlush == {i \in Threads : IsFlush(i) /\ tpc[i] \notin {"done", "raised"}}
LiveSessions(sym) ==
    {i \in Threads : IsSocket(i) /\ threads[i].sym = sym /\ tpc[i] # "crashed"}

\* C18: whatever start and stop calls were made, at most one flush loop is
\* live and, for every instrument, at most one session thread is live.
C18_SingleThreadPerRole ==
    /\ Cardinality(LiveFlush) <= 1
    /\ \A k \in 1 .. Len(IngestSymbols) :
          Cardinality(LiveSessions(IngestSymbols[k])) <= 1

\* C20: every row of the ohlc table has a timeframe of TIMEFRAME_MAP, a ts
\* that is a multiple of the timeframe's period, low <= open <= high and
\* low <= close <= high, and a volume that is the sum of the sizes of a
\* non-empty collection of persisted tick rows of its symbol with ts <= tick
\* time < ts + period (equal rows counted as often as they are taken); and
\* a resample step appends rows of its own key only.
C20_BarsWellFormed ==
    /\ [](\A r \in RowsOf(ohlc) :
            /\ r.timeframe \in DOMAIN TIMEFRAME_MAP
            /\ LET period == TIMEFRAME_MAP[r.timeframe]
                   inside == {t \in RowsOf(ticks) :
                                /\ t.symbol = r.symbol
                                /\ r.ts <= t.ts
                                /\ t.ts < r.ts + period}
               IN  /\ r.ts % period = 0
                   /\ r.low <= r.open /\ r.open <= r.high
                   /\ r.low <= r.close /\ r.close <= r.high
                   /\ \E S \in SubBag([t \in inside |-> CopiesIn(t, ticks)]) :
                         S # EmptyBag /\ r.volume = SumSize(S, BagToSet(S)))
    /\ [][\A c \in Callers :
             ExecStep(c) =>
                 \A r \in Appended :
                     /\ r.symbol = rkey[c].symbol
                     /\ r.timeframe = rkey[c].timeframe
                     /\ r.timeframe \in DOMAIN TIMEFRAME_MAP]_vars

\* C20 witness: a bar whose open lies strictly between its low and its high and
\* whose close is its low, built from three ticks at and after its bucket start.
C20_Witness ==
    \E r \in RowsOf(ohlc) :
        /\ r.low < r.open /\ r.open < r.high
        /\ r.close = r.low
        /\ r.volume = 4
        /\ \E t \in RowsOf(ticks) : t.symbol = r.symbol /\ t.ts > r.ts

\* ---------------------------------------------- properties of storage failures

\* C11: a flush returns from _flush_buffer to its loop only when its batch
\* went into the ticks table, and a flush whose insert_ticks raised ends with
\* the exception (the batch is not stored and the loop is left); a resample
\* invocation returns to its caller only when its INSERT ran on the rows of its
\* query, and an invocation whose query raised leaves the ohlc table as it
\* was and ends with the exception at the caller.
C11_FailurePropagates ==
    [][/\ \A i \in Threads :
            (IsFlush(i) /\ tpc[i] = "insert" /\ tloc[i] # <<>>) =>
                /\ tpc'[i] = "loop" =>
                      /\ ticks' = ticks (+) SeqToBag(tloc[i])
                      /\ lost' = lost
                /\ lost' # lost =>
                      /\ tpc'[i] = "raised"
                      /\ ticks' = ticks
       /\ \A c \in Callers :
            rpc[c] = "exec" =>
                /\ rpc'[c] = "idle" =>
                      /\ rdone' = [key |-> rkey[c], last |-> last_ts[c],
                                    rows |-> RowsOf(ohlc' (-) ohlc), table |-> ticks]
                      /\ rdone'.rows \in AggregateQuery(ticks, rkey[c].symbol,
                                                        rkey[c].timeframe, last_ts[c])
                      /\ ohlc' = InsertInto(ohlc, rdone'.rows)
                /\ rpc'[c] = "raised" => ohlc' = ohlc]_vars

\* C11 witness: a flush thread ended with the exception of insert_ticks, its
\* batch in no table, and a resample caller got the exception of its query.
C11_Witness ==
    /\ \E i \in Threads : IsFlush(i) /\ tpc[i] = "raised"
    /\ lost # EmptyBag
    /\ ticks = EmptyBag
    /\ \E c \in Callers : rpc[c] = "raised"

\* C19: every appended tick is, copies counted, in exactly one place: the
\* ticks table, a batch whose insert failed, a batch between swap and insert,
\* or the buffer; no tick is handed to insert_ticks more often than it was
\* appended; each insert_ticks call takes the whole batch of one flush, which
\* is then gone from the flush, and leaves the buffer as it is, whether the
\* call succeeds or raises.
C19_AtMostOnce ==
    /\ [](/\ appended = ticks (+) lost (+) InFlight (+) SeqToBag(buffer)
          /\ \A t \in BagToSet(handed) : CopiesIn(t, handed) <= CopiesIn(t, appended))
    /\ [][/\ ncalls' # ncalls =>
               /\ ncalls' = ncalls + 1
               /\ buffer' = buffer
               /\ \E i \in Threads :
                     /\ IsFlush(i) /\ tpc[i] = "insert" /\ tpc'[i] # "insert"
                     /\ handed' = handed (+) SeqToBag(tloc[i])
                     /\ tloc'[i] = <<>>
          /\ handed' # handed => ncalls' # ncalls
          /\ lost' # lost => (ncalls' # ncalls /\ ticks' = ticks)]_vars

\* C19 witness: a batch was lost to a failed insert, and a tick appended after
\* the swap of that batch waits in the buffer, which holds no tick of the batch.
C19_Witness ==
    /\ lost # EmptyBag
    /\ buffer # <<>>
    /\ \A k \in 1 .. Len(buffer) : CopiesIn(buffer[k], lost) = 0
    /\ ticks = EmptyBag

====
